---- MODULE Spec2Model ----
(***************************************************************************)
(* A model of the retirement-planning simulation core                      *)
(* (frontend/api/monte-carlo.py): run_monte_carlo, the allocation sweep    *)
(* built on it, and the historical stress test.                            *)
(*                                                                         *)
(* Number representation.  The program computes in floating point; the    *)
(* model computes in fixed point over the integers:                        *)
(*   - money is in whole dollars;                                          *)
(*   - a return, an inflation figure and an allocation are carried in      *)
(*     percent, as the CSV columns and the request fields hold them (the   *)
(*     program divides each by 100 before use, and so does every formula   *)
(*     here);                                                              *)
(*   - withdrawal_rate is carried in percent of the principal per year;    *)
(*   - inflation_input is carried in hundredths (3 is the number 0.03,     *)
(*     300 is the number 3.0);                                             *)
(*   - annual_inflation_multiplier is carried in ten-thousandths           *)
(*     (MultOne is 1.0).                                                   *)
(* A quotient that is not whole is rounded down.  avgFinalPortfolio and    *)
(* the final_portfolios list behind it are not modelled.                   *)
(***************************************************************************)
EXTENDS Integers, Sequences, FiniteSets, TLC

VARIABLES
    mode,                \* which entry point was called
    twin,                \* a second run given the same draws, None when there is none
    historical_data,     \* the rows of monthly_returns.csv
    years, withdrawal_rate, inflation_input,
    stock_allocation, bond_allocation, num_simulations,
    pc,                  \* position inside run_monte_carlo
    sim, month,          \* loop indices of run_monte_carlo
    portfolio, monthly_withdrawal, failed, failure_month,
    annual_inflation_multiplier,
    successes, failures, years_to_failure,
    result,              \* what run_monte_carlo returned, None before
    sweep_args,          \* the arguments of run_allocation_sweep_analysis
    stock_pct, allocations, results,
    calls,               \* the arguments of each run_monte_carlo call so far
    sweep_result,        \* what the sweep returned, None before
    historical_subset,   \* the rows from start_date on, as the stress test keeps them
    month_idx, yearly_results, failure_year,
    previous_stress_result, \* what the stress test returned to the request before
    stress_result        \* what the stress test returned, None before

mc_args == <<years, withdrawal_rate, inflation_input, num_simulations>>
mc_alloc == <<stock_allocation, bond_allocation>>
mc_run == <<month, portfolio, monthly_withdrawal, failed, failure_month,
            annual_inflation_multiplier>>
mc_totals == <<successes, failures, years_to_failure>>
sweep_vars == <<sweep_args, stock_pct, allocations, results, calls, sweep_result>>
stress_vars == <<historical_subset, month_idx, yearly_results, failure_year,
                 previous_stress_result, stress_result>>
env == <<mode, twin, historical_data, sweep_vars, stress_vars>>
vars == <<env, mc_args, mc_alloc, pc, sim, mc_run, mc_totals, result>>

----------------------------------------------------------------------------
(* Optional values: None, or Some(v).                                      *)
None == <<>>
Some(v) == <<v>>
Val(o) == o[1]

Percent == 100
MonthsPerYear == 12
MultOne == Percent * Percent

(* floor(p * k / d) for d > 0, computed without forming p * k.             *)
MulDiv(p, k, d) == (p \div d) * k + ((p % d) * k) \div d

(* Python's round(): n / d rounded to the nearest integer, a tie going to  *)
(* the even neighbour (n >= 0, d > 0).                                      *)
RoundHalfEven(n, d) ==
    LET q == n \div d
        r == n % d
    IN  IF 2 * r < d THEN q
        ELSE IF 2 * r > d THEN q + 1
        ELSE IF q % 2 = 0 THEN q ELSE q + 1

----------------------------------------------------------------------------
(* Inputs.                                                                 *)
MaxYears == 2
MaxSims == 2

Obs(s, b, i) == [stock |-> s, bond |-> b, infl |-> i]

ZeroData == <<Obs(0, 0, 0)>>
CrashData == <<Obs(0, 0, 0), Obs(-100, -100, 0)>>
InflData == <<Obs(0, 0, 0), Obs(0, 0, 1)>>
BondData == <<Obs(-50, 0, 0), Obs(-10, 10, 2)>>
EmptyData == <<>>

----------------------------------------------------------------------------
(* run_monte_carlo                                                         *)

initial_portfolio == 1000000

num_months == Len(historical_data)
(* A slip: the observation's inflation is used whatever the input.         *)
use_bootstrap_inflation_always == TRUE

use_bootstrap_inflation == inflation_input = None
total_months == years * MonthsPerYear

InitialWithdrawal(rate) == (initial_portfolio * rate) \div (Percent * MonthsPerYear)

(* A slip: the bond slice is left out of the recombined value.             *)
ApplyReturnsStockOnly(p, sa, ba, o) ==
    MulDiv(p, sa * (Percent + o.stock), Percent * Percent)

(* A slip: each allocation earns the other asset's return.                 *)
ApplyReturnsSwapped(p, sa, ba, o) ==
    MulDiv(p, sa * (Percent + o.bond) + ba * (Percent + o.stock), Percent * Percent)

(* portfolio * stock_allocation * (1 + stock_return)                       *)
(*   + portfolio * bond_allocation * (1 + bond_return)                     *)
ApplyReturns(p, sa, ba, o) ==
    MulDiv(p, sa * (Percent + o.stock) + ba * (Percent + o.bond), Percent * Percent)

(* A slip: the month's inflation is added, not compounded.                 *)
AccumulateAdditive(m, infl) == m + infl * Percent

(* annual_inflation_multiplier *= (1 + inflation)                          *)
Accumulate(m, infl) == (m * (Percent + infl)) \div Percent

(* monthly_withdrawal *= annual_inflation_multiplier                       *)
EscalateBootstrap(w, m) == MulDiv(w, m, MultOne)

(* monthly_withdrawal *= (1 + inflation_input / 100)                       *)
EscalateFixed(w, infl_in) == MulDiv(w, Percent * Percent + infl_in, Percent * Percent)

(* A slip: the escalation falls on the first month of a block of twelve.   *)
IsAnniversaryZeroBased(m) == m % MonthsPerYear = 0

(* if (month + 1) % 12 == 0                                                *)
IsAnniversary(m) == (m + 1) % MonthsPerYear = 0

(* A slip: a value of exactly zero is not taken as a failure.              *)
ExhaustedBelowZero(p) == p < 0

(* if portfolio <= 0                                                       *)
Exhausted(p) == p <= 0

(* A slip: failures is counted in both branches.                          *)
NextFailuresEveryRun(f, run_failed) == f + 1

NextFailures(f, run_failed) == IF run_failed THEN f + 1 ELSE f
NextSuccesses(s, run_failed) == IF run_failed THEN s ELSE s + 1

(* round((successes / num_simulations) * 100, 1), in tenths of a percent   *)
SuccessRate(s, n) == RoundHalfEven(s * Percent * 10, n)

RECURSIVE InsertSorted(_, _)
InsertSorted(s, x) ==
    IF s = <<>> THEN <<x>>
    ELSE IF x <= Head(s) THEN <<x>> \o s
    ELSE <<Head(s)>> \o InsertSorted(Tail(s), x)

RECURSIVE SortedAsc(_)
SortedAsc(s) == IF s = <<>> THEN <<>> ELSE InsertSorted(SortedAsc(Tail(s)), Head(s))

(* np.median of failure_month / 12 over the failed runs, as a number of    *)
(* twenty-fourths of a year (ytf holds the failure months, non-empty).     *)
MedianTwentyFourths(ytf) ==
    LET s == SortedAsc(ytf)
        n == Len(s)
    IN  IF n % 2 = 1 THEN 2 * s[(n + 1) \div 2]
        ELSE s[n \div 2] + s[n \div 2 + 1]

(* np.median(years_to_failure) if years_to_failure else None               *)
MedianYearsToFailure(ytf) ==
    IF ytf = <<>> THEN None ELSE Some(MedianTwentyFourths(ytf))

(* round(median_years_to_failure, 1) if median_years_to_failure else None, *)
(* in tenths of a year: a median of 0.0 is falsy.                          *)
ReportedMedian(med) ==
    IF med = None \/ Val(med) = 0 THEN None
    ELSE Some(RoundHalfEven(Val(med) * 10, 2 * MonthsPerYear))

(* A slip: the accumulator is set once, before the loop over the runs.     *)
BeginRunKeepingAccumulator ==
    /\ pc = "sim_loop"
    /\ sim < num_simulations
    /\ portfolio' = initial_portfolio
    /\ monthly_withdrawal' = InitialWithdrawal(withdrawal_rate)
    /\ failed' = FALSE
    /\ failure_month' = None
    /\ month' = 0
    /\ pc' = "month_loop"
    /\ UNCHANGED <<env, mc_args, mc_alloc, sim, mc_totals, result,
                   annual_inflation_multiplier>>

(* for sim in range(num_simulations): the start of one run                 *)
BeginRun ==
    /\ pc = "sim_loop"
    /\ sim < num_simulations
    /\ portfolio' = initial_portfolio
    /\ monthly_withdrawal' = InitialWithdrawal(withdrawal_rate)
    /\ failed' = FALSE
    /\ failure_month' = None
    /\ annual_inflation_multiplier' = MultOne
    /\ month' = 0
    /\ pc' = "month_loop"
    /\ UNCHANGED <<env, mc_args, mc_alloc, sim, mc_totals, result>>

(* The locals of one run, as a record.                                     *)
RunLocals ==
    [month |-> month, portfolio |-> portfolio,
     monthly_withdrawal |-> monthly_withdrawal, failed |-> failed,
     failure_month |-> failure_month,
     annual_inflation_multiplier |-> annual_inflation_multiplier]

(* The body of the month loop on the drawn observation o, for a run with   *)
(* the locals st and the allocations sa, ba: accumulate, apply the         *)
(* returns, withdraw, escalate, check for failure.                         *)
MonthStep(st, sa, ba, o) ==
    LET acc == IF use_bootstrap_inflation
               THEN Accumulate(st.annual_inflation_multiplier, o.infl)
               ELSE st.annual_inflation_multiplier
        p == ApplyReturns(st.portfolio, sa, ba, o) - st.monthly_withdrawal
    IN  [portfolio |-> p,
         monthly_withdrawal |->
             IF ~IsAnniversary(st.month) THEN st.monthly_withdrawal
             ELSE IF use_bootstrap_inflation
                  THEN EscalateBootstrap(st.monthly_withdrawal, acc)
                  ELSE EscalateFixed(st.monthly_withdrawal, Val(inflation_input)),
         annual_inflation_multiplier |->
             IF IsAnniversary(st.month) /\ use_bootstrap_inflation
             THEN MultOne ELSE acc,
         failed |-> Exhausted(p),
         failure_month |-> IF Exhausted(p) THEN Some(st.month) ELSE None,
         month |-> IF Exhausted(p) THEN st.month ELSE st.month + 1]

(* one iteration of: for month in range(total_months)                      *)
SimulateMonth ==
    /\ pc = "month_loop"
    /\ ~failed
    /\ month < total_months
    /\ \E random_month_idx \in 1..num_months :
         LET n == MonthStep(RunLocals, stock_allocation, bond_allocation,
                            historical_data[random_month_idx])
         IN  /\ portfolio' = n.portfolio
             /\ monthly_withdrawal' = n.monthly_withdrawal
             /\ annual_inflation_multiplier' = n.annual_inflation_multiplier
             /\ failed' = n.failed
             /\ failure_month' = n.failure_month
             /\ month' = n.month
    /\ UNCHANGED <<env, mc_args, mc_alloc, pc, sim, mc_totals, result>>

(* np.random.randint(0, 0) raises on an empty dataset                      *)
DrawRaises ==
    /\ pc = "month_loop"
    /\ ~failed
    /\ month < total_months
    /\ num_months = 0
    /\ pc' = "raised"
    /\ UNCHANGED <<env, mc_args, mc_alloc, sim, mc_run, mc_totals, result>>

(* the end of one run: Record results                                      *)
RecordRun ==
    /\ pc = "month_loop"
    /\ failed \/ month >= total_months
    /\ failures' = NextFailures(failures, failed)
    /\ successes' = NextSuccesses(successes, failed)
    /\ years_to_failure' =
         IF failed THEN Append(years_to_failure, Val(failure_month))
         ELSE years_to_failure
    /\ sim' = sim + 1
    /\ pc' = "sim_loop"
    /\ UNCHANGED <<env, mc_args, mc_alloc, mc_run, result>>

(* Calculate statistics, and return                                        *)
Aggregate ==
    /\ pc = "sim_loop"
    /\ sim >= num_simulations
    /\ IF num_simulations = 0
       THEN /\ pc' = "raised"      \* successes / 0: ZeroDivisionError
            /\ UNCHANGED result
       ELSE /\ pc' = "returned"
            /\ result' = Some([
                 successRate |-> SuccessRate(successes, num_simulations),
                 totalSimulations |-> num_simulations,
                 successes |-> successes,
                 failures |-> failures,
                 medianYearsToFailure |->
                     ReportedMedian(MedianYearsToFailure(years_to_failure)),
                 usedBootstrap |-> use_bootstrap_inflation])
    /\ UNCHANGED <<env, mc_args, mc_alloc, sim, mc_run, mc_totals>>

(* The locals of run_monte_carlo on entry (lines 131-141).                 *)
EnterMonteCarlo ==
    /\ sim = 0
    /\ successes = 0
    /\ failures = 0
    /\ years_to_failure = <<>>
    /\ month = 0
    /\ portfolio = initial_portfolio
    /\ monthly_withdrawal = 0
    /\ failed = FALSE
    /\ failure_month = None
    /\ annual_inflation_multiplier = MultOne
    /\ result = None

WithdrawalRates == {0, 12, 60, 1200}
InflationInputs == {None, Some(0), Some(3), Some(300)}
Allocations == {<<100, 0>>, <<0, 100>>, <<60, 40>>, <<70, 20>>, <<120, -20>>}

(* The calls of run_monte_carlo the model starts from.  The data sets that *)
(* branch at every draw are combined with fewer of the other inputs.       *)
MonteCarloInputs ==
    /\ years \in -1..MaxYears
    /\ num_simulations \in 0..MaxSims
    /\ \/ /\ historical_data = ZeroData
          /\ withdrawal_rate \in WithdrawalRates
          /\ inflation_input \in InflationInputs
          /\ \E a \in Allocations : stock_allocation = a[1] /\ bond_allocation = a[2]
       \/ /\ historical_data = CrashData
          /\ withdrawal_rate \in {0, 12}
          /\ inflation_input \in {None, Some(3)}
          /\ \E a \in {<<100, 0>>, <<60, 40>>} :
                stock_allocation = a[1] /\ bond_allocation = a[2]
       \/ /\ historical_data = InflData
          /\ withdrawal_rate \in {12, 60}
          /\ inflation_input \in {None, Some(300)}
          /\ stock_allocation = 100 /\ bond_allocation = 0
       \/ /\ historical_data = EmptyData
          /\ withdrawal_rate = 12
          /\ inflation_input = None
          /\ stock_allocation = 60 /\ bond_allocation = 40

(* One year over a data set in which the allocation decides the outcome.   *)
BondInputs ==
    /\ years = 1
    /\ num_simulations = 1
    /\ historical_data = BondData
    /\ withdrawal_rate \in {12, 60}
    /\ inflation_input = None
    /\ \E a \in {<<100, 0>>, <<0, 100>>, <<60, 40>>} :
          stock_allocation = a[1] /\ bond_allocation = a[2]

SweepIdle ==
    /\ sweep_args = None
    /\ stock_pct = 0
    /\ allocations = <<>>
    /\ results = <<>>
    /\ calls = <<>>
    /\ sweep_result = None

StressIdle ==
    /\ historical_subset = <<>>
    /\ month_idx = 0
    /\ yearly_results = <<>>
    /\ failure_year = None
    /\ previous_stress_result = None
    /\ stress_result = None

InitMonteCarlo ==
    /\ mode = "monte_carlo"
    /\ twin = None
    /\ SweepIdle
    /\ StressIdle
    /\ MonteCarloInputs \/ BondInputs
    /\ EnterMonteCarlo
    /\ pc = "sim_loop"

MonteCarloStep == BeginRun \/ SimulateMonth \/ DrawRaises \/ RecordRun \/ Aggregate

Init == InitMonteCarlo
Next == MonteCarloStep
Spec == Init /\ [][Next]_vars

----------------------------------------------------------------------------
(* run_allocation_sweep_analysis                                           *)
(* An entry of allocations carries stockPercent, bondPercent, successRate, *)
(* successes and failures; its avgFinalPortfolio and medianYearsToFailure, *)
(* copied from the result and read by nothing, are not carried.            *)

SweepStart == 0
SweepStop == 101
SweepStep == 10

(* A slip: the bond share is set to the stock share.                       *)
BondAllocationSame(pct) == pct

(* bond_allocation = (100 - stock_pct) / 100, in percent                   *)
BondAllocationFor(pct) == Percent - pct

(* The keyword arguments of the run_monte_carlo call for one stock_pct.    *)
CallArgs(pct) ==
    [years |-> sweep_args.years,
     withdrawal_rate |-> sweep_args.withdrawal_rate,
     inflation_input |-> sweep_args.inflation_input,
     stock_allocation |-> pct,
     bond_allocation |-> BondAllocationFor(pct),
     num_simulations |-> sweep_args.num_simulations]

RECURSIVE MaxOf(_)
MaxOf(s) ==
    IF Len(s) = 1 THEN s[1]
    ELSE LET m == MaxOf(Tail(s)) IN IF Head(s) >= m THEN Head(s) ELSE m

(* A slip: the position of the last element equal to x.                    *)
RECURSIVE IndexOfLast(_, _)
IndexOfLast(s, x) == IF s[Len(s)] = x THEN Len(s) ELSE IndexOfLast(SubSeq(s, 1, Len(s) - 1), x)

(* list.index: the position of the first element equal to x                *)
RECURSIVE IndexOf(_, _)
IndexOf(s, x) == IF Head(s) = x THEN 1 ELSE 1 + IndexOf(Tail(s), x)

(* for stock_pct in range(0, 101, 10): the call of run_monte_carlo         *)
SweepCall ==
    /\ mode = "sweep"
    /\ pc = "idle"
    /\ stock_pct < SweepStop
    /\ LET a == CallArgs(stock_pct)
       IN  /\ years' = a.years
           /\ withdrawal_rate' = a.withdrawal_rate
           /\ inflation_input' = a.inflation_input
           /\ stock_allocation' = a.stock_allocation
           /\ bond_allocation' = a.bond_allocation
           /\ num_simulations' = a.num_simulations
           /\ calls' = Append(calls, a)
    /\ sim' = 0
    /\ successes' = 0
    /\ failures' = 0
    /\ years_to_failure' = <<>>
    /\ month' = 0
    /\ portfolio' = initial_portfolio
    /\ monthly_withdrawal' = 0
    /\ failed' = FALSE
    /\ failure_month' = None
    /\ annual_inflation_multiplier' = MultOne
    /\ result' = None
    /\ pc' = "sim_loop"
    /\ UNCHANGED <<mode, twin, historical_data, sweep_args, stock_pct, allocations,
                   results, sweep_result, stress_vars>>

(* the rest of the loop body, once run_monte_carlo has returned            *)
SweepCollect ==
    /\ mode = "sweep"
    /\ pc = "returned"
    /\ allocations' = Append(allocations,
         [stockPercent |-> stock_pct,
          bondPercent |-> Percent - stock_pct,
          successRate |-> Val(result).successRate,
          successes |-> Val(result).successes,
          failures |-> Val(result).failures])
    /\ results' = Append(results, Val(result).successRate)
    /\ stock_pct' = stock_pct + SweepStep
    /\ pc' = "idle"
    /\ UNCHANGED <<mode, twin, historical_data, sweep_args, calls, sweep_result, stress_vars,
                   mc_args, mc_alloc, sim, mc_run, mc_totals, result>>

(* Find best allocation (highest success rate), and return                 *)
SweepReturn ==
    /\ mode = "sweep"
    /\ pc = "idle"
    /\ stock_pct >= SweepStop
    /\ LET best_idx == IndexOf(results, MaxOf(results))
           best_allocation == allocations[best_idx]
       IN  sweep_result' = Some([
             type |-> "allocationSweep",
             allocations |-> allocations,
             bestAllocation |->
                 [stockPercent |-> best_allocation.stockPercent,
                  bondPercent |-> best_allocation.bondPercent,
                  successRate |-> best_allocation.successRate],
             totalCombinations |-> Len(allocations),
             simulationsPerCombination |-> sweep_args.num_simulations,
             totalSimulations |-> Len(allocations) * sweep_args.num_simulations])
    /\ pc' = "sweep_returned"
    /\ UNCHANGED <<mode, twin, historical_data, sweep_args, stock_pct, allocations, results,
                   calls, stress_vars, mc_args, mc_alloc, sim, mc_run, mc_totals, result>>

StockLossData == <<Obs(-10, 0, 0)>>
BondLossData == <<Obs(0, -10, 0)>>

SweepArgs(y, w, i, n) ==
    [years |-> y, withdrawal_rate |-> w, inflation_input |-> i, num_simulations |-> n]

(* The sweeps the model starts from: over data sets of one observation,    *)
(* where every run of a point ends alike, and, with one run per point,     *)
(* over the data set in which any draw may end the run.                    *)
SweepInputs ==
    \/ /\ historical_data \in {ZeroData, StockLossData, BondLossData}
       /\ sweep_args \in {SweepArgs(y, w, i, n) :
                y \in 0..MaxYears, w \in {0, 60, 1200},
                i \in {None, Some(3)}, n \in 0..MaxSims}
    \/ /\ historical_data = CrashData
       /\ sweep_args \in {SweepArgs(1, 0, None, 1), SweepArgs(1, 12, Some(3), 1)}
    \/ /\ historical_data = EmptyData
       /\ sweep_args = SweepArgs(1, 12, None, 1)
    \/ /\ historical_data = InflData
       /\ sweep_args = SweepArgs(2, 60, None, 2)

InitSweep ==
    /\ mode = "sweep"
    /\ twin = None
    /\ SweepInputs
    /\ stock_pct = SweepStart
    /\ allocations = <<>>
    /\ results = <<>>
    /\ calls = <<>>
    /\ sweep_result = None
    /\ StressIdle
    /\ years = 0
    /\ withdrawal_rate = 0
    /\ inflation_input = None
    /\ stock_allocation = 0
    /\ bond_allocation = 0
    /\ num_simulations = 0
    /\ EnterMonteCarlo
    /\ pc = "idle"

SweepStepAction == SweepCall \/ SweepCollect \/ SweepReturn

NextSweep == MonteCarloStep \/ SweepStepAction
SpecSweep == InitSweep /\ [][NextSweep]_vars

----------------------------------------------------------------------------
(* run_historical_stress_test                                              *)
(* A row of the CSV read for the stress test carries its Date as           *)
(* <<year, month, day>>; a label such as 'March 2001' is <<3, 2001>>.      *)

start_year == 2000
start_month == 3
start_day == 31
anniversary_month == 3
last_history_year == 2024
december == 12

start_date == <<start_year, start_month, start_day>>
dec_2024_end == <<last_history_year, december, 31>>

DateLE(a, b) ==
    \/ a[1] < b[1]
    \/ a[1] = b[1] /\ a[2] < b[2]
    \/ a[1] = b[1] /\ a[2] = b[2] /\ a[3] <= b[3]

OnOrAfterStart(r) == DateLE(start_date, r.date)
UpToDec2024(r) == DateLE(r.date, dec_2024_end)

(* df[df['Date'] >= start_date].reset_index(drop=True); iloc[k] is         *)
(* historical_subset[k + 1]                                                *)
FromStart(df) == SelectSeq(df, OnOrAfterStart)
dec_2024_data == SelectSeq(historical_subset, UpToDec2024)

years_from_start == last_history_year - start_year

MinOf(a, b) == IF a <= b THEN a ELSE b

max_months ==
    IF years <= years_from_start
    THEN years * MonthsPerYear
    ELSE MinOf(years * MonthsPerYear, Len(historical_subset))

main_loop_end == MinOf(max_months, Len(historical_subset))

(* A slip: the twelve rows are always the first twelve of the slice.       *)
RECURSIVE AnnualInflationFirstRows(_, _)
AnnualInflationFirstRows(idx, i) ==
    IF i = 0 THEN MultOne
    ELSE Accumulate(AnnualInflationFirstRows(idx, i - 1), historical_subset[i].infl)

(* Compound the inflation over the past 12 months: the rows                *)
(* iloc[idx - 11 .. idx], taken in order from 1.0                          *)
RECURSIVE AnnualInflation(_, _)
AnnualInflation(idx, i) ==
    IF i = 0 THEN MultOne
    ELSE Accumulate(AnnualInflation(idx, i - 1),
                    historical_subset[(idx - 11 + (i - 1)) + 1].infl)

(* One month of either loop: returns, withdrawal, escalation.              *)
StressWithdrawal(w, idx) ==
    IF IsAnniversary(idx)
    THEN EscalateBootstrap(w, AnnualInflation(idx, MonthsPerYear))
    ELSE w

StressValue(p, w, idx) ==
    ApplyReturns(p, stock_allocation, bond_allocation, historical_subset[idx + 1]) - w

SnapshotDueAnyway(d, has_failed) ==
    d[2] = anniversary_month /\ d[1] > start_year

(* Record anniversary month values each year (skip the starting year);     *)
(* reached only when the month did not fail                                *)
SnapshotDue(d, has_failed) ==
    ~has_failed /\ d[2] = anniversary_month /\ d[1] > start_year

Snapshot(label, value, year) == [date |-> label, portfolioValue |-> value, year |-> year]

(* one iteration of: for month_idx in range(min(max_months, len(subset)))  *)
StressMonth ==
    /\ mode = "stress"
    /\ pc = "main_loop"
    /\ ~failed
    /\ month_idx < main_loop_end
    /\ LET row == historical_subset[month_idx + 1]
           p == StressValue(portfolio, monthly_withdrawal, month_idx)
       IN  /\ portfolio' = p
           /\ monthly_withdrawal' = StressWithdrawal(monthly_withdrawal, month_idx)
           /\ failed' = Exhausted(p)
           /\ failure_year' = IF Exhausted(p) THEN Some(row.date[1]) ELSE failure_year
           /\ yearly_results' =
                IF SnapshotDue(row.date, Exhausted(p))
                THEN Append(yearly_results,
                            Snapshot(<<row.date[2], row.date[1]>>, p, row.date[1]))
                ELSE yearly_results
           /\ month_idx' = IF Exhausted(p) THEN month_idx ELSE month_idx + 1
    /\ UNCHANGED <<mode, twin, historical_data, historical_subset, sweep_vars, stress_result,
                   previous_stress_result,
                   mc_args, mc_alloc, pc, sim, month, failure_month, annual_inflation_multiplier,
                   mc_totals, result>>

(* The trailing loop, for month_idx in range(max_months, len(dec_2024_data)), *)
(* from the state st = [portfolio, monthly_withdrawal, failed, failure_year]. *)
RECURSIVE TrailingLoop(_, _, _)
TrailingLoop(idx, stop, st) ==
    IF idx >= stop \/ st.failed THEN st
    ELSE LET p == StressValue(st.portfolio, st.monthly_withdrawal, idx)
         IN  TrailingLoop(idx + 1, stop,
                 [portfolio |-> p,
                  monthly_withdrawal |-> StressWithdrawal(st.monthly_withdrawal, idx),
                  failed |-> Exhausted(p),
                  failure_year |->
                      IF Exhausted(p) THEN Some(historical_subset[idx + 1].date[1])
                      ELSE st.failure_year])

(* if not failed and years > years_from_start                              *)
TrailingDue(has_failed) == ~has_failed /\ years > years_from_start

(* Everything after the main loop: the trailing loop, the final entry,     *)
(* and the return.                                                         *)
StressReturn ==
    /\ mode = "stress"
    /\ pc = "main_loop"
    /\ failed \/ month_idx >= main_loop_end
    /\ LET st0 == [portfolio |-> portfolio, monthly_withdrawal |-> monthly_withdrawal,
                   failed |-> failed, failure_year |-> failure_year]
           st == IF TrailingDue(failed)
                 THEN TrailingLoop(max_months, Len(dec_2024_data), st0)
                 ELSE st0
           final == IF TrailingDue(failed) /\ ~st.failed
                    THEN Append(yearly_results,
                                Snapshot(<<december, last_history_year>>, st.portfolio,
                                         last_history_year))
                    ELSE yearly_results
       IN  /\ portfolio' = st.portfolio
           /\ monthly_withdrawal' = st.monthly_withdrawal
           /\ failed' = st.failed
           /\ failure_year' = st.failure_year
           /\ yearly_results' = final
           /\ stress_result' = Some([
                 type |-> "historicalStressTest",
                 startDate |-> <<start_month, start_year>>,
                 yearsSimulated |-> years,
                 initialPortfolio |-> initial_portfolio,
                 stockAllocation |-> stock_allocation,
                 bondAllocation |-> bond_allocation,
                 withdrawalRate |-> withdrawal_rate,
                 failed |-> st.failed,
                 failureYear |-> st.failure_year,
                 yearlyResults |-> final])
    /\ pc' = "stress_returned"
    /\ UNCHANGED <<mode, twin, historical_data, historical_subset, sweep_vars, month_idx,
                   previous_stress_result,
                   mc_args, mc_alloc,
                   sim, month, failure_month, annual_inflation_multiplier,
                   mc_totals, result>>

(* The CSV rows the stress test reads: one per calendar month from January *)
(* 2000, dated on the first or on the last day of the month.               *)
MaxStressYears == 26

DaysIn(y, m) ==
    IF m = 2 THEN (IF y % 4 = 0 THEN 29 ELSE 28)
    ELSE IF m \in {4, 6, 9, 11} THEN 30 ELSE 31

RowDate(k, dated) ==
    LET y == start_year + (k \div MonthsPerYear)
        m == (k % MonthsPerYear) + 1
    IN  <<y, m, IF dated = "first" THEN 1 ELSE DaysIn(y, m)>>

FlatRow(k) == Obs(0, 0, 0)
VariedRow(k) ==
    Obs(IF k % 7 = 0 THEN -10 ELSE IF k % 7 = 3 THEN 5 ELSE 0,
        IF k % 4 = 0 THEN 1 ELSE 0,
        IF k % 5 = 0 THEN 1 ELSE 0)
CrashRow(k) == IF k = 110 THEN Obs(-100, -100, 0) ELSE VariedRow(k)

Dated(o, d) == [date |-> d, stock |-> o.stock, bond |-> o.bond, infl |-> o.infl]

StressData(n, dated, pattern) ==
    [j \in 1..n |->
        Dated(IF pattern = "flat" THEN FlatRow(j - 1)
              ELSE IF pattern = "varied" THEN VariedRow(j - 1)
              ELSE CrashRow(j - 1),
              RowDate(j - 1, dated))]

(* Rows through December 2024, through June 2025, or only through 2003.    *)
FullRows == 300
LongRows == 306
ShortRows == 48

StressFiles ==
    {StressData(FullRows, dated, pattern) :
        dated \in {"first", "last"}, pattern \in {"flat", "varied", "crash"}}
    \cup {StressData(LongRows, "last", "flat"), StressData(ShortRows, "last", "flat")}

StressArgs(y, w, sa, ba) ==
    /\ years = y
    /\ withdrawal_rate = w
    /\ stock_allocation = sa
    /\ bond_allocation = ba

StressInputs ==
    /\ historical_data \in StressFiles
    /\ \E y \in -1..MaxStressYears :
          \/ \E w \in {0, 12, 60, 100} :
                /\ historical_data[1].date[3] # 1 \/ w \in {0, 100}
                /\ StressArgs(y, w, 60, 40)
          \/ /\ Len(historical_data) = FullRows
             /\ StressArgs(y, 12, 100, 0)

(* The inflation field of the request, which do_POST reads and does not   *)
(* pass to the stress test.                                                *)
RequestInflation ==
    IF stock_allocation = Percent THEN {None, Some(300)} ELSE {None}

InitStress ==
    /\ mode = "stress"
    /\ twin = None
    /\ StressInputs
    /\ SweepIdle
    /\ inflation_input \in RequestInflation
    /\ num_simulations = 0
    /\ sim = 0
    /\ successes = 0
    /\ failures = 0
    /\ years_to_failure = <<>>
    /\ month = 0
    /\ failure_month = None
    /\ annual_inflation_multiplier = MultOne
    /\ result = None
    /\ historical_subset = FromStart(historical_data)
    /\ portfolio = initial_portfolio
    /\ monthly_withdrawal = InitialWithdrawal(withdrawal_rate)
    /\ yearly_results =
          <<Snapshot(<<start_month, start_year>>, initial_portfolio, start_year)>>
    /\ failed = FALSE
    /\ failure_year = None
    /\ month_idx = 0
    /\ previous_stress_result = None
    /\ stress_result = None
    /\ pc = "main_loop"

NextStress == StressMonth \/ StressReturn
SpecStress == InitStress /\ [][NextStress]_vars

(* A slip: the list of snapshots outlives the call.                        *)
StartSnapshotsKept == yearly_results

(* yearly_results = [] and the starting value appended to it               *)
StartSnapshots ==
    <<Snapshot(<<start_month, start_year>>, initial_portfolio, start_year)>>

(* A second request with the same body: do_POST calls the stress test      *)
(* again, which reads the file and sets up its locals anew.                *)
StressAgain ==
    /\ mode = "stress"
    /\ pc = "stress_returned"
    /\ previous_stress_result = None
    /\ previous_stress_result' = stress_result
    /\ stress_result' = None
    /\ historical_subset' = FromStart(historical_data)
    /\ portfolio' = initial_portfolio
    /\ monthly_withdrawal' = InitialWithdrawal(withdrawal_rate)
    /\ yearly_results' = StartSnapshots
    /\ failed' = FALSE
    /\ failure_year' = None
    /\ month_idx' = 0
    /\ pc' = "main_loop"
    /\ UNCHANGED <<mode, twin, historical_data, sweep_vars, mc_args, mc_alloc,
                   sim, month, failure_month, annual_inflation_multiplier,
                   mc_totals, result>>

NextStressTwice == NextStress \/ StressAgain
SpecStressTwice == InitStress /\ [][NextStressTwice]_vars

----------------------------------------------------------------------------
(* Two runs of run_monte_carlo side by side on the same draws: the first   *)
(* in the variables of the run, the second in twin, which has its own      *)
(* allocations and data set and shares the other arguments.                *)

InflFreeData == <<Obs(0, 0, 0), Obs(-10, 5, 0)>>
InflHighData == <<Obs(0, 0, 3), Obs(-10, 5, -1)>>

(* the locals a run starts from: lines 145-150                             *)
FreshLocals ==
    [month |-> 0, portfolio |-> initial_portfolio,
     monthly_withdrawal |-> InitialWithdrawal(withdrawal_rate), failed |-> FALSE,
     failure_month |-> None, annual_inflation_multiplier |-> MultOne]

Alive(st) == ~st.failed /\ st.month < total_months

PairBegin ==
    /\ mode = "pair"
    /\ pc = "sim_loop"
    /\ sim < num_simulations
    /\ portfolio' = FreshLocals.portfolio
    /\ monthly_withdrawal' = FreshLocals.monthly_withdrawal
    /\ failed' = FreshLocals.failed
    /\ failure_month' = FreshLocals.failure_month
    /\ annual_inflation_multiplier' = FreshLocals.annual_inflation_multiplier
    /\ month' = FreshLocals.month
    /\ twin' = [twin EXCEPT !.run = FreshLocals]
    /\ pc' = "month_loop"
    /\ UNCHANGED <<mode, historical_data, sweep_vars, stress_vars, mc_args, mc_alloc,
                   sim, mc_totals, result>>

(* one draw, given to each of the two runs that is still in its month loop *)
PairMonth ==
    /\ mode = "pair"
    /\ pc = "month_loop"
    /\ Alive(RunLocals) \/ Alive(twin.run)
    /\ \E random_month_idx \in 1..num_months :
         LET n == IF Alive(RunLocals)
                  THEN MonthStep(RunLocals, stock_allocation, bond_allocation,
                                 historical_data[random_month_idx])
                  ELSE RunLocals
             t == IF Alive(twin.run)
                  THEN MonthStep(twin.run, twin.stock_allocation, twin.bond_allocation,
                                 twin.historical_data[random_month_idx])
                  ELSE twin.run
         IN  /\ portfolio' = n.portfolio
             /\ monthly_withdrawal' = n.monthly_withdrawal
             /\ annual_inflation_multiplier' = n.annual_inflation_multiplier
             /\ failed' = n.failed
             /\ failure_month' = n.failure_month
             /\ month' = n.month
             /\ twin' = [twin EXCEPT !.run = t]
    /\ UNCHANGED <<mode, historical_data, sweep_vars, stress_vars, mc_args, mc_alloc,
                   pc, sim, mc_totals, result>>

(* Record results, for both runs                                           *)
PairRecord ==
    /\ mode = "pair"
    /\ pc = "month_loop"
    /\ ~Alive(RunLocals)
    /\ ~Alive(twin.run)
    /\ failures' = NextFailures(failures, failed)
    /\ successes' = NextSuccesses(successes, failed)
    /\ years_to_failure' =
         IF failed THEN Append(years_to_failure, Val(failure_month))
         ELSE years_to_failure
    /\ twin' = [twin EXCEPT !.successes = NextSuccesses(@, twin.run.failed)]
    /\ sim' = sim + 1
    /\ pc' = "sim_loop"
    /\ UNCHANGED <<mode, historical_data, sweep_vars, stress_vars, mc_args, mc_alloc,
                   mc_run, result>>

Twin(sa, ba, data) ==
    [stock_allocation |-> sa, bond_allocation |-> ba, historical_data |-> data,
     successes |-> 0,
     run |-> [month |-> 0, portfolio |-> initial_portfolio, monthly_withdrawal |-> 0,
              failed |-> FALSE, failure_month |-> None,
              annual_inflation_multiplier |-> MultOne]]

SteadyBondData == <<Obs(-2, 1, 1)>>
SteadyData == <<Obs(-1, 1, 0)>>
SteadyInflData == <<Obs(-1, 1, 2)>>

(* All equity beside more bonds, on data whose bond return is the greater  *)
(* in every observation; and one allocation on two data sets that differ   *)
(* in their inflation only.  The data sets that branch at every draw are   *)
(* given one run of one year.                                              *)
PairInputs ==
    \/ /\ years = 1
       /\ num_simulations = 1
       /\ \/ /\ historical_data = BondData
             /\ stock_allocation = 100 /\ bond_allocation = 0
             /\ twin \in {Twin(60, 40, BondData), Twin(0, 100, BondData)}
             /\ inflation_input = None
          \/ /\ historical_data = InflFreeData
             /\ stock_allocation = 60 /\ bond_allocation = 40
             /\ twin = Twin(60, 40, InflHighData)
             /\ inflation_input \in {None, Some(300)}
       /\ withdrawal_rate \in {12, 60}
    \/ /\ years \in 1..MaxYears
       /\ num_simulations \in 1..MaxSims
       /\ \/ /\ historical_data = SteadyBondData
             /\ stock_allocation = 100 /\ bond_allocation = 0
             /\ twin \in {Twin(60, 40, SteadyBondData), Twin(0, 100, SteadyBondData)}
             /\ withdrawal_rate \in {0, 12, 60}
             /\ inflation_input \in {None, Some(300)}
          \/ /\ historical_data = SteadyData
             /\ stock_allocation = 60 /\ bond_allocation = 40
             /\ twin = Twin(60, 40, SteadyInflData)
             /\ withdrawal_rate \in {12, 60}
             /\ inflation_input \in {None, Some(0), Some(300)}

InitPair ==
    /\ mode = "pair"
    /\ PairInputs
    /\ SweepIdle
    /\ StressIdle
    /\ EnterMonteCarlo
    /\ pc = "sim_loop"

NextPair == PairBegin \/ PairMonth \/ PairRecord
SpecPair == InitPair /\ [][NextPair]_vars

----------------------------------------------------------------------------
(* Properties of run_monte_carlo.                                          *)

InRun == pc = "month_loop"
(* The months of the current run simulated so far.                         *)
MonthsSimulated == IF failed THEN month + 1 ELSE month
AllocationsSumToOne == stock_allocation + bond_allocation = Percent

(* C1: successes + failures equals the number of runs completed so far    *)
(* after every run of the outer loop, and in the returned result           *)
(* successes + failures = totalSimulations and 0 <= successRate <= 100.    *)
C1_CountsAddUp ==
    /\ successes + failures = sim
    /\ sim <= num_simulations \/ num_simulations = 0
    /\ result # None =>
         LET r == Val(result)
         IN  /\ r.totalSimulations = num_simulations
             /\ r.successes + r.failures = r.totalSimulations
             /\ r.successRate >= 0
             /\ r.successRate <= Percent * 10

C1_Witness ==
    /\ result # None
    /\ Val(result).successes > 0
    /\ Val(result).failures > 0

(* C2: inside a run the portfolio value is <= 0 exactly when the run has  *)
(* failed; a failed run records the zero-based index of the month that     *)
(* brought the value to <= 0, and the only step after the failure is the   *)
(* recording of the run: no later month is simulated.  So the value is     *)
(* strictly positive at the start of every simulated month.                *)
C2_FailureEndsRun ==
    /\ [](InRun => /\ failed <=> portfolio <= 0
                   /\ failed <=> failure_month # None
                   /\ failed => failure_month = Some(month)
                   /\ month <= total_months \/ month = 0)
    /\ [][(InRun /\ failed) => (pc' = "sim_loop" /\ UNCHANGED mc_run)]_vars
    /\ [][(InRun /\ month' # month) => (portfolio > 0 /\ ~failed)]_vars

C2_Witness ==
    /\ InRun
    /\ failed
    /\ Val(failure_month) > 0
    /\ Val(failure_month) + 1 < total_months

(* C3: on the all-zero data set with allocations summing to 1 and no      *)
(* escalation in effect (bootstrap inflation, a fixed inflation of 0, the  *)
(* first twelve months, or a withdrawal of 0), the portfolio value after   *)
(* m simulated months is principal - m * (principal * rate / 12); with a   *)
(* rate of 0 every run succeeds; with a rate of 0.12 a run of one year     *)
(* ends at 880000 without a failure.                                       *)
NoEscalationYet ==
    \/ inflation_input \in {None, Some(0)}
    \/ MonthsSimulated <= MonthsPerYear
    \/ withdrawal_rate = 0

C3_ZeroDataLinear ==
    (historical_data = ZeroData /\ AllocationsSumToOne) =>
        /\ (InRun /\ NoEscalationYet) =>
              portfolio = initial_portfolio
                  - MonthsSimulated
                      * ((initial_portfolio * withdrawal_rate) \div (Percent * MonthsPerYear))
        /\ (result # None /\ withdrawal_rate = 0) =>
              Val(result).successRate = Percent * 10
        /\ (InRun /\ withdrawal_rate = 12 /\ years = 1 /\ month = total_months) =>
              (portfolio = 880000 /\ ~failed)

C3_Witness ==
    /\ historical_data = ZeroData
    /\ stock_allocation = 60
    /\ bond_allocation = 40
    /\ InRun
    /\ withdrawal_rate = 12
    /\ years = 1
    /\ month = total_months
    /\ portfolio = 880000

(* C8: a non-positive horizon, an allocation outside [0, 1] or a          *)
(* simulation count of zero is rejected before running: no month of a      *)
(* run is simulated and no result is returned.                             *)
InvalidInput ==
    \/ years <= 0
    \/ stock_allocation < 0 \/ stock_allocation > Percent
    \/ bond_allocation < 0 \/ bond_allocation > Percent
    \/ num_simulations = 0

C8_InvalidInputRejected ==
    InvalidInput => (month = 0 /\ ~failed /\ result = None)

(* C9: medianYearsToFailure is absent exactly when no run failed, and     *)
(* otherwise is the median of failureMonth / 12 rounded to one decimal,    *)
(* a median of 0 included.                                                 *)
C9_MedianReported ==
    result # None =>
        /\ Val(result).medianYearsToFailure = None <=> Val(result).failures = 0
        /\ Val(result).failures > 0 =>
              Val(result).medianYearsToFailure =
                  Some(RoundHalfEven(MedianTwentyFourths(years_to_failure) * 10,
                                     2 * MonthsPerYear))

(* C10: with a fixed inflation r given as a fraction, the withdrawal      *)
(* after k completed years is the initial withdrawal times (1 + r)^k, and  *)
(* the result reports usedBootstrap false exactly when an input is given.  *)
RECURSIVE CompoundedByFraction(_, _, _)
CompoundedByFraction(w, r, k) ==
    IF k = 0 THEN w
    ELSE MulDiv(CompoundedByFraction(w, r, k - 1), Percent + r, Percent)

C10_FixedInflationAsFraction ==
    /\ (InRun /\ inflation_input # None) =>
          monthly_withdrawal =
              CompoundedByFraction(
                  (initial_portfolio * withdrawal_rate) \div (Percent * MonthsPerYear),
                  Val(inflation_input), MonthsSimulated \div MonthsPerYear)
    /\ result # None => (Val(result).usedBootstrap <=> inflation_input = None)

----------------------------------------------------------------------------
(* Properties of run_allocation_sweep_analysis.                            *)

GridStock(i) == 10 * (i - 1)

(* C4: the sweep calls run_monte_carlo once for each equity percentage    *)
(* 0, 10, ..., 100 in ascending order, with bond percentage 100 - equity   *)
(* and the sweep's own horizon, withdrawal rate, inflation input and       *)
(* simulation count at every call; the result lists the 11 allocations in  *)
(* that order and reports totalSimulations = 11 * simulationCount.         *)
C4_SweepGrid ==
    /\ Len(calls) <= 11
    /\ Len(allocations) <= Len(calls)
    /\ Len(calls) <= Len(allocations) + 1
    /\ \A i \in 1..Len(calls) :
          calls[i] = [years |-> sweep_args.years,
                      withdrawal_rate |-> sweep_args.withdrawal_rate,
                      inflation_input |-> sweep_args.inflation_input,
                      stock_allocation |-> GridStock(i),
                      bond_allocation |-> 100 - GridStock(i),
                      num_simulations |-> sweep_args.num_simulations]
    /\ pc \in {"sim_loop", "month_loop", "returned", "raised"} =>
          /\ Len(calls) = Len(allocations) + 1
          /\ <<years, withdrawal_rate, inflation_input, num_simulations>> =
                <<sweep_args.years, sweep_args.withdrawal_rate,
                  sweep_args.inflation_input, sweep_args.num_simulations>>
          /\ stock_allocation = GridStock(Len(calls))
          /\ bond_allocation = 100 - GridStock(Len(calls))
    /\ \A i \in 1..Len(allocations) :
          /\ allocations[i].stockPercent = GridStock(i)
          /\ allocations[i].bondPercent = 100 - GridStock(i)
    /\ sweep_result # None =>
          /\ Len(calls) = 11
          /\ Val(sweep_result).allocations = allocations
          /\ Len(Val(sweep_result).allocations) = 11
          /\ Val(sweep_result).totalSimulations = 11 * sweep_args.num_simulations

C4_Witness ==
    /\ sweep_result # None
    /\ sweep_args.num_simulations = 2
    /\ Val(sweep_result).totalSimulations = 22
    /\ calls[4].stock_allocation = 30
    /\ calls[4].bond_allocation = 70

(* C5: bestAllocation is the entry of allocations with the maximal        *)
(* successRate, the one of lowest equity percentage when several share     *)
(* the maximum, and carries that entry's stockPercent, bondPercent and     *)
(* successRate.                                                            *)
C5_BestIsFirstMaximum ==
    sweep_result # None =>
        LET r == Val(sweep_result)
        IN  \E i \in 1..Len(r.allocations) :
              /\ r.bestAllocation =
                    [stockPercent |-> r.allocations[i].stockPercent,
                     bondPercent |-> r.allocations[i].bondPercent,
                     successRate |-> r.allocations[i].successRate]
              /\ \A j \in 1..Len(r.allocations) :
                    /\ r.allocations[j].successRate <= r.allocations[i].successRate
                    /\ r.allocations[j].successRate = r.allocations[i].successRate =>
                          r.allocations[j].stockPercent >= r.allocations[i].stockPercent

(* A sweep whose maximum is shared and is not at the first point.          *)
C5_Witness ==
    /\ sweep_result # None
    /\ Val(sweep_result).bestAllocation.stockPercent = 30
    /\ Val(sweep_result).allocations[2].successRate < Val(sweep_result).bestAllocation.successRate
    /\ Val(sweep_result).allocations[6].successRate < Val(sweep_result).bestAllocation.successRate
    /\ Val(sweep_result).allocations[8].successRate = Val(sweep_result).bestAllocation.successRate

----------------------------------------------------------------------------
(* Properties of run_historical_stress_test.                               *)

StressReturned == mode = "stress" /\ stress_result # None

(* the replayed months before index idx in which a snapshot falls due      *)
AnniversariesBefore(idx) ==
    Cardinality({k \in 0..(idx - 1) :
        /\ historical_subset[k + 1].date[2] = anniversary_month
        /\ historical_subset[k + 1].date[1] > start_year})

(* C6: when the horizon is shorter than the history from the reference     *)
(* month on and the portfolio never reaches <= 0, yearlyResults has        *)
(* years + 1 entries (the start and one per anniversary); a failed run     *)
(* has fewer.                                                              *)
C6_HorizonPlusOneEntries ==
    (/\ StressReturned
     /\ years >= 0
     /\ years < years_from_start
     /\ years * MonthsPerYear < Len(historical_subset))
    => LET r == Val(stress_result)
       IN  /\ ~r.failed => Len(r.yearlyResults) = years + 1
           /\ r.failed => Len(r.yearlyResults) < years + 1

(* C7: the replay stops at the first month whose value after the           *)
(* withdrawal is <= 0: failed is set, failureYear is that month's calendar *)
(* year, neither that month nor a later one adds a snapshot, not even the  *)
(* final December entry, and yearlyResults keeps every snapshot recorded   *)
(* before; a run in which no month fails reports failed false and no       *)
(* failureYear.                                                            *)
C7_FailureStopsReplay ==
    /\ [](mode = "stress" =>
            /\ failed <=> portfolio <= 0
            /\ failed => failure_year = Some(historical_subset[month_idx + 1].date[1])
            /\ ~failed => failure_year = None
            /\ \A i \in 1..Len(yearly_results) : yearly_results[i].portfolioValue > 0
            /\ failed => Len(yearly_results) = 1 + AnniversariesBefore(month_idx)
            /\ StressReturned =>
                    /\ Val(stress_result).failed = failed
                    /\ Val(stress_result).failureYear = failure_year
                    /\ Val(stress_result).yearlyResults = yearly_results)
    /\ [][(mode = "stress" /\ failed) =>
            UNCHANGED <<portfolio, monthly_withdrawal, month_idx, yearly_results,
                        failed, failure_year>>]_vars

(* a run that failed in an anniversary month, after earlier snapshots, and *)
(* asked for more years than the history holds                             *)
C7_Witness ==
    /\ StressReturned
    /\ failed
    /\ years > years_from_start
    /\ historical_subset[month_idx + 1].date[2] = anniversary_month
    /\ Len(yearly_results) > 2

----------------------------------------------------------------------------
(* Properties of two runs on the same draws.                               *)

BondFavourable(data) == \A i \in 1..Len(data) : data[i].bond > data[i].stock

(* all equity in the run, more bonds in its twin, on bond-favourable data  *)
BondHeavierTwin ==
    /\ mode = "pair"
    /\ twin.historical_data = historical_data
    /\ BondFavourable(historical_data)
    /\ stock_allocation = Percent /\ bond_allocation = 0
    /\ twin.stock_allocation + twin.bond_allocation = Percent
    /\ twin.bond_allocation > bond_allocation

(* the two runs have just been through the same months                     *)
SameMonths ==
    \/ twin.run.month = month
    \/ failed /\ ~twin.run.failed /\ twin.run.month = month + 1

(* C12: on data whose bond return exceeds the equity return in every       *)
(* observation, the run with more bonds is worth at least as much as the   *)
(* all-equity run after every month both simulate on the same draws; it    *)
(* fails only if the all-equity run fails, and over the same draws it      *)
(* counts at least as many successes.                                      *)
C12_BondHeavierNotWorse ==
    BondHeavierTwin =>
        /\ SameMonths => twin.run.portfolio >= portfolio
        /\ (pc = "month_loop" /\ twin.run.failed) => failed
        /\ twin.successes >= successes

(* the all-equity run failed where its twin lasted the horizon             *)
C12_Witness ==
    /\ BondHeavierTwin
    /\ pc = "sim_loop"
    /\ sim > 0
    /\ failures > 0
    /\ twin.successes > successes
    /\ twin.run.portfolio > 0

(* the twin has the run's allocations and a data set that differs from    *)
(* the run's in its inflation values, and in nothing else                  *)
InflationOnlyTwin ==
    /\ mode = "pair"
    /\ twin.stock_allocation = stock_allocation
    /\ twin.bond_allocation = bond_allocation
    /\ Len(twin.historical_data) = Len(historical_data)
    /\ \A i \in 1..Len(historical_data) :
          /\ twin.historical_data[i].stock = historical_data[i].stock
          /\ twin.historical_data[i].bond = historical_data[i].bond
    /\ \E i \in 1..Len(historical_data) :
          twin.historical_data[i].infl # historical_data[i].infl

(* C19: with a fixed inflation input, two runs on the same draws over data *)
(* sets that differ only in their inflation values agree after every       *)
(* month in value, withdrawal, failure and failure month, and so in their  *)
(* outcome.                                                                *)
C19_FixedModeIgnoresDataInflation ==
    (InflationOnlyTwin /\ inflation_input # None) =>
        /\ twin.run.month = month
        /\ twin.run.portfolio = portfolio
        /\ twin.run.monthly_withdrawal = monthly_withdrawal
        /\ twin.run.failed = failed
        /\ twin.run.failure_month = failure_month
        /\ twin.successes = successes

(* in the second year, after an escalation by the fixed 3%                 *)
C19_Witness ==
    /\ InflationOnlyTwin
    /\ inflation_input = Some(300)
    /\ pc = "month_loop"
    /\ month > 12
    /\ monthly_withdrawal > (initial_portfolio * withdrawal_rate) \div 1200
    /\ twin.run.portfolio = portfolio

----------------------------------------------------------------------------
(* Further properties of run_historical_stress_test.                       *)

(* the slice from the reference month on ends before the horizon does      *)
SliceTooShort ==
    /\ mode = "stress"
    /\ years > 0
    /\ years <= years_from_start
    /\ Len(historical_subset) < years * MonthsPerYear

(* C13: a stress test whose file is too short for the anchor and the       *)
(* horizon asked for ends in an error and returns no result, at the latest *)
(* when the replay has used up the rows there are.                         *)
C13_ShortDataRaises ==
    (SliceTooShort /\ ~failed /\ month_idx >= Len(historical_subset))
    => stress_result = None

(* C16: when the horizon fits the history (years <= 24), the rows reach    *)
(* that far and the portfolio never fails, the last month replayed is the  *)
(* anniversary month of year start_year + years and the last entry of      *)
(* yearlyResults is the snapshot of that month.                            *)
C16_EndsAtFinalAnniversary ==
    (/\ StressReturned
     /\ ~failed
     /\ years >= 1
     /\ years <= years_from_start
     /\ Len(historical_subset) >= years * MonthsPerYear)
    => LET last_row == historical_subset[month_idx]
           last_entry == yearly_results[Len(yearly_results)]
       IN  /\ last_row.date[1] = start_year + years
           /\ last_row.date[2] = anniversary_month
           /\ last_entry.year = start_year + years
           /\ last_entry.date = <<anniversary_month, start_year + years>>

(* the rows of the slice reach December 2024 or beyond                     *)
SliceReachesDec2024 ==
    /\ historical_subset # <<>>
    /\ DateLE(<<last_history_year, december, 1>>,
              historical_subset[Len(historical_subset)].date)

(* C17: when the horizon exceeds the history (years > 24) and the          *)
(* portfolio never fails, every month of the slice is replayed once, and   *)
(* after the anniversary snapshots comes exactly one more entry, which     *)
(* has the label and year of the slice's last month and the value after    *)
(* that month.                                                             *)
C17_WholeSliceAndTrailingEntry ==
    (/\ StressReturned
     /\ ~failed
     /\ years > years_from_start
     /\ SliceReachesDec2024)
    => LET last_row == historical_subset[Len(historical_subset)]
           last_entry == yearly_results[Len(yearly_results)]
       IN  /\ month_idx = Len(historical_subset)
           /\ Len(yearly_results) = 1 + AnniversariesBefore(month_idx) + 1
           /\ last_entry.date = <<last_row.date[2], last_row.date[1]>>
           /\ last_entry.year = last_row.date[1]
           /\ last_entry.portfolioValue = portfolio

(* The bootstrap rule of run_monte_carlo on the first k rows of the slice: *)
(* an accumulator multiplied by 1 + inflation every month, applied to the  *)
(* withdrawal and set back to 1.0 after every 12th.                        *)
RECURSIVE BootstrapRule(_)
BootstrapRule(k) ==
    IF k = 0
    THEN [w |-> (initial_portfolio * withdrawal_rate) \div 1200, acc |-> 10000]
    ELSE LET before == BootstrapRule(k - 1)
             acc == (before.acc * (100 + historical_subset[k].infl)) \div 100
         IN  IF k % 12 = 0
             THEN [w |-> MulDiv(before.w, acc, 10000), acc |-> 10000]
             ELSE [w |-> before.w, acc |-> acc]

StressMonthsReplayed == IF failed THEN month_idx + 1 ELSE month_idx

(* C18: after every replayed month the stress test's withdrawal is what    *)
(* the bootstrap rule of run_monte_carlo gives on the same rows in order,  *)
(* whatever the request's fixed inflation.                                 *)
C18_EscalationAsBootstrap ==
    mode = "stress" => monthly_withdrawal = BootstrapRule(StressMonthsReplayed).w

(* after two escalations by unequal factors, with a fixed inflation in     *)
(* the request                                                             *)
C18_Witness ==
    /\ mode = "stress"
    /\ inflation_input = Some(300)
    /\ month_idx >= 24
    /\ AnnualInflation(11, 12) # AnnualInflation(23, 12)
    /\ monthly_withdrawal > (initial_portfolio * withdrawal_rate) \div 1200

----------------------------------------------------------------------------
(* Further properties of run_monte_carlo.                                  *)

(* w after k escalations by the fixed rate infl_in                         *)
RECURSIVE EscalatedTimes(_, _, _)
EscalatedTimes(w, infl_in, k) ==
    IF k = 0 THEN w
    ELSE MulDiv(EscalatedTimes(w, infl_in, k - 1), 10000 + infl_in, 10000)

(* C14: the monthly withdrawal changes only at the end of a month whose    *)
(* 1-based index is divisible by 12 (or when the next run sets it anew):   *)
(* after m simulated months, the failing one included, it has been         *)
(* escalated floor(m / 12) times, which is the number of years after a     *)
(* completed horizon.  The number of escalations is read off the amount    *)
(* in fixed inflation mode, where every escalation has the same factor.    *)
C14_EscalationEveryTwelfthMonth ==
    /\ []((InRun /\ inflation_input # None) =>
            monthly_withdrawal =
                EscalatedTimes((initial_portfolio * withdrawal_rate) \div 1200,
                               Val(inflation_input), MonthsSimulated \div 12))
    /\ []((InRun /\ ~failed /\ month >= total_months /\ years > 0) =>
            MonthsSimulated \div 12 = years)
    /\ [][monthly_withdrawal' # monthly_withdrawal =>
            \/ pc = "sim_loop"
            \/ pc = "month_loop" /\ (month + 1) % 12 = 0]_vars

(* a run that failed in the middle of its second year, after one           *)
(* escalation by 3%                                                        *)
C14_Witness ==
    /\ InRun
    /\ failed
    /\ month > 12
    /\ (month + 1) % 12 # 0
    /\ inflation_input = Some(300)
    /\ monthly_withdrawal > (initial_portfolio * withdrawal_rate) \div 1200

(* a month of the month loop has just been simulated                       *)
MonthSimulated == pc = "month_loop" /\ ~failed /\ (month' # month \/ failed')

(* C15: in bootstrap mode every simulated month multiplies the accumulator *)
(* by 1 + the inflation of the observation drawn for it; at the end of     *)
(* every 12th month the withdrawal is multiplied by the accumulator, which *)
(* then holds the product over the 12 draws of the block, and the          *)
(* accumulator is 1.0 again at the start of the next block.  In fixed      *)
(* mode the accumulator stays 1.0.                                         *)
C15_BlockInflationProduct ==
    /\ [](mode = "monte_carlo" =>
            /\ inflation_input # None => annual_inflation_multiplier = 10000
            /\ (InRun /\ MonthsSimulated % 12 = 0) => annual_inflation_multiplier = 10000)
    /\ [][(MonthSimulated /\ inflation_input = None) =>
            \E i \in 1..Len(historical_data) :
                LET o == historical_data[i]
                    product == (annual_inflation_multiplier * (100 + o.infl)) \div 100
                IN  /\ portfolio' =
                          MulDiv(portfolio,
                                 stock_allocation * (100 + o.stock)
                                     + bond_allocation * (100 + o.bond), 10000)
                          - monthly_withdrawal
                    /\ IF (month + 1) % 12 = 0
                       THEN /\ monthly_withdrawal' = MulDiv(monthly_withdrawal, product, 10000)
                            /\ annual_inflation_multiplier' = 10000
                       ELSE /\ monthly_withdrawal' = monthly_withdrawal
                            /\ annual_inflation_multiplier' = product]_vars

(* the second block of a bootstrap run starts from 1.0 with a withdrawal   *)
(* raised by the inflation drawn in the first                              *)
C15_Witness ==
    /\ InRun
    /\ inflation_input = None
    /\ month = 12
    /\ ~failed
    /\ annual_inflation_multiplier = 10000
    /\ monthly_withdrawal > (initial_portfolio * withdrawal_rate) \div 1200

(* C20: every run starts from the principal, the withdrawal               *)
(* principal * rate / 12, month 0, not failed and an accumulator of 1.0,   *)
(* whatever the run before it left behind; and no run and no sweep point   *)
(* changes the data set.                                                   *)
C20_RunsStartFresh ==
    /\ [][(pc = "sim_loop" /\ pc' = "month_loop") =>
            /\ portfolio' = 1000000
            /\ monthly_withdrawal' = (1000000 * withdrawal_rate) \div 1200
            /\ month' = 0
            /\ ~failed'
            /\ failure_month' = None
            /\ annual_inflation_multiplier' = 10000]_vars
    /\ [][historical_data' = historical_data]_vars

(* the second run of a sweep point has started, after a first that failed  *)
(* in the middle of a block of twelve months in bootstrap mode             *)
C20_Witness ==
    /\ mode = "sweep"
    /\ pc = "month_loop"
    /\ month = 0
    /\ sim = 1
    /\ inflation_input = None
    /\ historical_data = InflData
    /\ Len(years_to_failure) = 1
    /\ (years_to_failure[1] + 1) % 12 # 0
    /\ years_to_failure[1] > 12
    /\ stock_pct > 0
    /\ annual_inflation_multiplier = 10000

====
